---- MODULE Spec2Model ----
(***************************************************************************)
(* TradeBot: the streaming tool-call loop of GeminiService.sendMessage     *)
(* (src/services/gemini.ts) driven by App.handleSend (src/unnamed/part_000)*)
(*                                                                         *)
(* One action per stretch of code between two suspension points (await).   *)
(* The model (the Gemini chat session) is the environment: it opens a      *)
(* stream or fails, yields the next fragment, ends the stream or fails.    *)
(***************************************************************************)
EXTENDS Integers, Sequences, FiniteSets, TLC

(* ---------------------------- bounds ----------------------------------- *)
\* fragments consumed in one turn, over the initial and the resumed streams
MaxChunks == 3
\* the longest list of messages the App is followed to
MaxMessages == 5

(* ---------------------------- values ----------------------------------- *)
\* a property that is missing from a JavaScript object reads as undefined
Undefined == "undefined"
\* a string is a sequence of characters; '' is <<>>; NoText is the chunk.text of a
\* fragment that has no text part, which reads undefined
NoText == <<Undefined>>
Texts == {<<>>, <<"a">>}
ToolTexts == {<<>>, <<"b">>}
InputValues == {<<>>, <<" ">>, <<"h">>}
\* process.env.API_KEY || '': missing, or set
ApiKeys == {"", "key"}
\* Math.random(), in thousandths; a random source is the cycle of draws that the calls
\* of Math.random() made for one function call run through
Draws == {0, 500, 501}
RandomSources == { <<a, b, c>> : a, b, c \in Draws }
\* the random sources of the function calls of a turn
Randoms == { <<500, 501, 0>>, <<0, 501, 500>> }
\* the arguments generateMockChartData is applied to
Symbols == {"btc", "Eth"}
Periods == {"1D", "1W", "1M", "1Y", "5Y"}

\* call.args: absent altogether, an empty mapping, or both properties given
NoArgs == [defined |-> FALSE, symbol |-> Undefined, period |-> Undefined]
EmptyArgs == [defined |-> TRUE, symbol |-> Undefined, period |-> Undefined]
FullArgs == [defined |-> TRUE, symbol |-> "btc", period |-> "1W"]

Chart(args) == [name |-> "getStockChart", args |-> args]
Price(args) == [name |-> "getStockPrice", args |-> args]
Other(args) == [name |-> "getWeather", args |-> args]

\* a grounding chunk of a fragment: candidates[0].groundingMetadata.groundingChunks[i].web,
\* "" for a title or a uri that is missing
Web(title, uri) == [title |-> title, uri |-> uri]

\* chunk.functionCalls of a fragment that carries calls (ids are given on receipt)
Batches ==
  { <<Chart(FullArgs)>>,
    <<Chart(EmptyArgs), Price(FullArgs)>>,
    <<Other(FullArgs)>>,
    <<Price(EmptyArgs), Other(EmptyArgs)>>,
    <<Chart(FullArgs), Price(NoArgs)>> }

\* fragments of the stream of a user message (a text or none, a batch of calls, or a
\* text together with a call), and of a stream resumed after function responses
Fragments ==
  [text : Texts, functionCalls : {<<>>}, groundingChunks : {<<>>}]
    \cup [text : {NoText}, functionCalls : Batches, groundingChunks : {<<>>}]
    \cup [text : {<<"a">>}, functionCalls : {<<Chart(FullArgs)>>}, groundingChunks : {<<>>}]
    \cup [text : {NoText}, functionCalls : {<<>>},
          groundingChunks : {<<Web("t1", "u1"), Web("", "u2")>>}]
ToolFragments ==
  [text : ToolTexts, functionCalls : {<<>>}, groundingChunks : {<<>>}]
    \cup [text : {<<"b">>}, functionCalls : {<<Chart(FullArgs)>>}, groundingChunks : {<<>>}]
    \cup [text : {NoText}, functionCalls : {<<>>}, groundingChunks : {<<Web("t3", "u3")>>}]

VARIABLES
  inputValue,        \* App: useState('')
  isLoading,         \* App: useState(false)
  renderedLoading,   \* App: the isLoading that the handlers of the last render closed over
  appPc,             \* App.handleSend: "idle", or "awaiting" the promise of sendMessage
  botMessageId,      \* App.handleSend: <<>>, or <<id>> while a call of handleSend is open
  messages,          \* App: useState<Message[]>([welcome])
  inFlight,          \* sendMessage calls that have not settled
  chatSession,       \* GeminiService.chatSession: 0 is null
  apiKey,            \* GeminiService.apiKey: process.env.API_KEY, or '' when it is missing
  pc,                \* position of sendMessage
  fullTextResponse,  \* local of sendMessage
  sources,           \* local of sendMessage
  generated,         \* <<>>, or <<g>>: the last application of generateMockChartData
  result,            \* <<>>, or <<r>> once the promise resolved with r
  error,             \* "", or what the promise rejected with
  trace              \* what the turn did at its boundaries, in order

vars == <<inputValue, isLoading, renderedLoading, appPc, botMessageId, messages,
          inFlight, chatSession, apiKey,
          pc, fullTextResponse, sources, result, error, trace, generated>>

appVars == <<inputValue, isLoading, renderedLoading, appPc, botMessageId>>
turnVars == <<pc, fullTextResponse, sources, result, error, trace>>

(* ---------------------------- trace ------------------------------------ *)
\* trace holds, in the order they happen:
\*   [ev |-> "submit", stream, parts, session]
\*                                      chatSession.sendMessageStream(...) is called;
\*                                      stream 0 carries the user message, stream k the
\*                                      k-th batch of function responses (parts)
\*   [ev |-> "recv", stream, frag]      a fragment is taken from a stream
\*   [ev |-> "onChunk", stream, text]   the caller's text callback is invoked
\*   [ev |-> "onChart", call, chart]    the caller's chart callback is invoked
\*   [ev |-> "end", stream]             a resumed stream is exhausted
\*   [ev |-> "fail", stream]            a model call rejects
\*   [ev |-> "return"]                  sendMessage returns its result
RECURSIVE Concat(_)
Concat(ss) == IF ss = <<>> THEN <<>> ELSE Head(ss) \o Concat(Tail(ss))

RECURSIVE SumLen(_)
SumLen(ss) == IF ss = <<>> THEN 0 ELSE Len(Head(ss)) + SumLen(Tail(ss))

EventsOf(tr, kind) == SelectSeq(tr, LAMBDA e : e.ev = kind)
Events(kind) == EventsOf(trace, kind)
Indices(kind) == { i \in 1..Len(trace) : trace[i].ev = kind }

\* fragments consumed, function calls received, tool submissions made so far in the turn
NumChunks == Len(Events("recv"))
NumRequests ==
  LET r == Events("recv")
  IN SumLen([i \in 1..Len(r) |-> r[i].frag.functionCalls])
NumSubmits == Len(Events("submit")) - 1

\* the stream sendMessage is reading from
CurrentStream == IF pc \in {"awaitToolStream", "toolStreaming"} THEN NumSubmits ELSE 0

\* the calls of a fragment as received: the model gives each request its own id
WithIds(kinds, base) ==
  [i \in 1..Len(kinds) |-> [id |-> base + i, name |-> kinds[i].name, args |-> kinds[i].args]]

(* ---------------------------- JavaScript ------------------------------- *)
\* a slip: only undefined is tested
TruthyUnlessUndefined(text) == text # NoText

\* if (text): undefined and '' are falsy
Truthy(text) == text # NoText /\ text # <<>>

\* v || d on a string property: undefined and '' give d
OrElse(v, d) == IF v = Undefined \/ v = "" THEN d ELSE v

\* String.prototype.toUpperCase on the symbols in play
ToUpperCase(s) ==
  CASE s = "btc" -> "BTC"
    [] s = "BTC" -> "BTC"
    [] s = "Eth" -> "ETH"
    [] s = "UNKNOWN" -> "UNKNOWN"

\* String.prototype.trim: spaces are dropped at both ends
RECURSIVE TrimStart(_)
TrimStart(s) == IF s # <<>> /\ Head(s) = " " THEN TrimStart(Tail(s)) ELSE s
RECURSIVE TrimEnd(_)
TrimEnd(s) == IF s # <<>> /\ s[Len(s)] = " " THEN TrimEnd(SubSeq(s, 1, Len(s) - 1)) ELSE s
Trim(s) == TrimEnd(TrimStart(s))

(* ---------------------------- gemini.ts -------------------------------- *)
\* tools: [{ functionDeclarations: [getStockChartFunction, getStockPriceFunction] }]
DeclaredTools == {"getStockChart", "getStockPrice"}

\* the k-th call of Math.random()
Random(rnd, k) == rnd[((k - 1) % Len(rnd)) + 1]

\* toFixed(2): a price in thousandths is rounded to hundredths
ToFixed2(x) == (x + 5) \div 10

\* a slip: a 1W chart is given the points of the default
PointsWithoutWeek(period) ==
  CASE period = "1D" -> 24
    [] period = "1M" -> 30
    [] period = "1Y" -> 12
    [] OTHER -> 30

\* let points = 30; if (period === '1D') points = 24; ...
Points(period) ==
  CASE period = "1D" -> 24
    [] period = "1W" -> 7
    [] period = "1M" -> 30
    [] period = "1Y" -> 12
    [] OTHER -> 30

\* for (let i = points; i >= 0; i--): every round draws the change and the volume and
\* pushes a point (the date of a point, taken from the clock, is left out); prices are
\* kept in thousandths, pushed prices in hundredths
RECURSIVE Walk(_, _, _, _, _)
Walk(currentPrice, i, k, rnd, data) ==
  IF i < 0 THEN data
  ELSE LET change == (currentPrice * (Random(rnd, k) - 500) * 2) \div 100000
           price == currentPrice + change
           point == [price |-> ToFixed2(price), volume |-> Random(rnd, k + 1) * 10 + 1000]
       IN Walk(price, i - 1, k + 2, rnd, Append(data, point))

\* a slip: the comparison is the wrong way round
TrendReversed(start, end) ==
  IF end < start THEN "up" ELSE IF end > start THEN "down" ELSE "neutral"

\* trend: end > start ? 'up' : end < start ? 'down' : 'neutral'
Trend(start, end) ==
  IF end > start THEN "up" ELSE IF end < start THEN "down" ELSE "neutral"

\* generateMockChartData: startPrice = Math.random() * 100 + 50, the walk, and the
\* returned { symbol: symbol.toUpperCase(), data, period, trend }
GenerateMockChartData(symbol, period, rnd) ==
  LET startPrice == Random(rnd, 1) * 100 + 50000
      data == Walk(startPrice, Points(period), 2, rnd, <<>>)
      start == data[1].price
      end == data[Len(data)].price
  IN [symbol |-> ToUpperCase(symbol), data |-> data, period |-> period,
      trend |-> Trend(start, end)]

\* (Math.random() * 1000 + 10).toFixed(2)
StockPrice(rnd) == ToFixed2(Random(rnd, 1) * 1000 + 10000)

\* a slip: the price quoted is the chart's first
LastPriceOfFirstPoint(chartData) == chartData.data[1].price

\* chartData.data[chartData.data.length-1].price
LastPrice(chartData) == chartData.data[Len(chartData.data)].price

\* a slip: the response does not carry the id of the call
ChartResponseWithoutId(call, symbol, chartData) ==
  [id |-> 0, name |-> call.name,
   response |-> [result |-> "Chart generated for", symbol |-> symbol, price |-> LastPrice(chartData)]]

\* the response pushed for a getStockChart call, and for a getStockPrice call
ChartResponse(call, symbol, chartData) ==
  [id |-> call.id, name |-> call.name,
   response |-> [result |-> "Chart generated for", symbol |-> symbol, price |-> LastPrice(chartData)]]

PriceResponse(call, symbol, price) ==
  [id |-> call.id, name |-> call.name,
   response |-> [result |-> "The current price of", symbol |-> symbol, price |-> price]]

\* a slip: the chart is generated and reported to the model, the caller is not told
OnChartOmitted(call, chartData) == <<>>

\* a slip: the callback is invoked a second time
OnChartTwice(call, chartData) ==
  <<[ev |-> "onChart", call |-> call.id, chart |-> chartData],
    [ev |-> "onChart", call |-> call.id, chart |-> chartData]>>

\* onChart(chartData), as the trace records it
OnChart(call, chartData) == <<[ev |-> "onChart", call |-> call.id, chart |-> chartData]>>

\* for (const call of functionCalls) { ... }: acc is what the loop has built so far,
\* rnd[i] the random source of the i-th remaining call.  args.symbol throws a TypeError
\* when args is undefined, and the loop is left.
RECURSIVE ExecuteCalls(_, _, _)
ExecuteCalls(calls, rnd, acc) ==
  IF calls = <<>> THEN acc
  ELSE LET call == Head(calls) IN
    IF ~call.args.defined THEN [acc EXCEPT !.threw = TRUE]
    ELSE LET symbol == OrElse(call.args.symbol, "UNKNOWN") IN
      IF call.name = "getStockChart"
      THEN LET period == OrElse(call.args.period, "1M")
               chartData == GenerateMockChartData(symbol, period, Head(rnd))
           IN ExecuteCalls(Tail(calls), Tail(rnd),
                [acc EXCEPT !.events = @ \o OnChart(call, chartData),
                            !.functionResponses =
                                Append(@, ChartResponse(call, symbol, chartData))])
      ELSE IF call.name = "getStockPrice"
      THEN ExecuteCalls(Tail(calls), Tail(rnd),
                [acc EXCEPT !.functionResponses =
                                Append(@, PriceResponse(call, symbol, StockPrice(Head(rnd))))])
      ELSE ExecuteCalls(Tail(calls), Tail(rnd), acc)

NoneExecuted == [functionResponses |-> <<>>, events |-> <<>>, threw |-> FALSE]

\* a slip: every call of sendMessage starts a chat of its own
EnsureSessionAlwaysNew(session) == session + 1

\* if (!this.chatSession) this.initializeChat(): chats are numbered as they are created
EnsureSession(session) == IF session = 0 THEN session + 1 ELSE session

\* 2. Handle Grounding: a grounding chunk is pushed when it has a web uri and a web title
IsWebSource(c) == c.uri # "" /\ c.title # ""
HandleGrounding(srcs, groundingChunks) == srcs \o SelectSeq(groundingChunks, IsWebSource)

\* 1. Handle Text, in the loop over the stream of the user message
HandleText(full, text, stream) ==
  IF Truthy(text)
  THEN [full |-> full \o text,
        events |-> <<[ev |-> "onChunk", stream |-> stream, text |-> text]>>]
  ELSE [full |-> full, events |-> <<>>]

\* a slip: the function calls of a chunk are handled before its text
ChunkEventsCallsFirst(textEvents, callEvents) == callEvents \o textEvents

\* what one chunk makes the caller see: block 1 (Handle Text) runs before block 3
\* (Handle Function Calls)
ChunkEvents(textEvents, callEvents) == textEvents \o callEvents

\* a slip: the resumed stream's text is passed on but not added to the result
HandleToolTextNotAccumulated(full, toolText, stream) ==
  IF Truthy(toolText)
  THEN [full |-> full,
        events |-> <<[ev |-> "onChunk", stream |-> stream, text |-> toolText]>>]
  ELSE [full |-> full, events |-> <<>>]

\* the same, in the loop over the stream resumed after function responses
HandleToolText(full, toolText, stream) ==
  IF Truthy(toolText)
  THEN [full |-> full \o toolText,
        events |-> <<[ev |-> "onChunk", stream |-> stream, text |-> toolText]>>]
  ELSE [full |-> full, events |-> <<>>]

\* return { text: fullTextResponse, sources }
Return(full, srcs) ==
  [pc |-> "resolved", result |-> <<[text |-> full, sources |-> srcs]>>, error |-> ""]

\* a slip: the error is logged and the text gathered so far is returned
CatchSwallowed(err, full) ==
  [pc |-> "resolved", result |-> <<[text |-> full, sources |-> <<>>]>>, error |-> ""]

\* catch (error) { console.error(...); throw error; }
Catch(err, full) == [pc |-> "rejected", result |-> <<>>, error |-> err]

(* ---------------------------- App -------------------------------------- *)
\* a slip: the guard forgets isLoading
CanSendWhileLoading(input, loading) == Trim(input) # <<>>

\* a slip: the guard tests the input as typed
CanSendUntrimmed(input, loading) == ~(input = <<>> \/ loading)

\* if (!inputValue.trim() || isLoading) return;
CanSend(input, loading) == ~(Trim(input) = <<>> \/ loading)

\* a Message; a property that may be missing is <<>> or <<value>>, the timestamp is
\* left out
Message(id, role, text, loading) ==
  [id |-> id, role |-> role, text |-> text, isLoading |-> loading,
   chartData |-> <<>>, sources |-> <<>>]

\* the texts the App writes itself, shortened: the greeting and the error message
WelcomeText == <<"H">>
ErrorText == <<"E">>
Welcome == Message(0, "model", WelcomeText, <<>>)

\* Date.now() at a send: the clock reads more than it did at any send before
DateNow(msgs) == Len(msgs)

\* prev.map(msg => msg.id === botMessageId ? f(msg) : msg), where updated[i] is
\* f(prev[i])
MapMessage(prev, id, updated) ==
  [i \in 1..Len(prev) |-> IF prev[i].id = id THEN updated[i] ELSE prev[i]]

\* prev.find(m => m.id === botMessageId)
Find(prev, id) ==
  prev[CHOOSE i \in 1..Len(prev) :
         prev[i].id = id /\ \A j \in 1..(i - 1) : prev[j].id # id]

\* a slip: the chunk replaces the text shown so far
OnChunkUpdateReplaces(prev, id, chunk) ==
  LET f(msg) == [msg EXCEPT !.text = chunk, !.isLoading = <<FALSE>>]
  IN MapMessage(prev, id, [i \in 1..Len(prev) |-> f(prev[i])])

\* the updater of the onChunk callback
OnChunkUpdate(prev, id, chunk) ==
  LET f(msg) == [msg EXCEPT !.text = Find(prev, id).text \o chunk, !.isLoading = <<FALSE>>]
  IN MapMessage(prev, id, [i \in 1..Len(prev) |-> f(prev[i])])

\* the updater of the onChart callback
OnChartUpdate(prev, id, chartData) ==
  LET f(msg) == [msg EXCEPT !.chartData = <<chartData>>]
  IN MapMessage(prev, id, [i \in 1..Len(prev) |-> f(prev[i])])

\* the final update of the try block
FinalUpdate(prev, id, res) ==
  LET f(msg) == [msg EXCEPT !.isLoading = <<FALSE>>, !.sources = <<res.sources>>]
  IN MapMessage(prev, id, [i \in 1..Len(prev) |-> f(prev[i])])

\* a slip: the catch block writes the text and leaves the message loading
CatchUpdateStillLoading(prev, id) ==
  LET f(msg) == [msg EXCEPT !.text = ErrorText]
  IN MapMessage(prev, id, [i \in 1..Len(prev) |-> f(prev[i])])

\* the update of the catch block
CatchUpdate(prev, id) ==
  LET f(msg) == [msg EXCEPT !.text = ErrorText, !.isLoading = <<FALSE>>]
  IN MapMessage(prev, id, [i \in 1..Len(prev) |-> f(prev[i])])

\* the callbacks sendMessage invokes, applied to the messages in the order of the calls
\* (currentText and currentChart are written by the callbacks and never read)
RECURSIVE ApplyCallbacks(_, _, _)
ApplyCallbacks(prev, events, id) ==
  IF events = <<>> THEN prev
  ELSE LET e == Head(events)
           next == IF e.ev = "onChunk" THEN OnChunkUpdate(prev, id, e.text)
                   ELSE OnChartUpdate(prev, id, e.chart)
       IN ApplyCallbacks(next, Tail(events), id)

Init ==
  /\ inputValue = <<>>
  /\ botMessageId = <<>>
  /\ messages = <<Welcome>>
  /\ isLoading = FALSE
  /\ renderedLoading = FALSE
  /\ appPc = "idle"
  /\ inFlight = 0
  /\ chatSession = 0
  /\ apiKey \in ApiKeys
  /\ pc = "idle"
  /\ fullTextResponse = <<>>
  /\ sources = <<>>
  /\ result = <<>>
  /\ error = ""
  /\ trace = <<>>
  /\ generated = <<>>

\* onChange of the input, or a click on a predefined prompt
SetInputValue(v) ==
  /\ v # inputValue
  /\ inputValue' = v
  /\ UNCHANGED <<isLoading, renderedLoading, appPc, botMessageId, messages>>
  /\ UNCHANGED <<inFlight, chatSession, apiKey, turnVars, generated>>

\* handleSend up to its await: the send is accepted, the state updates of the event
\* handler are rendered before the next event, and sendMessage runs up to its first
\* await (the session is created if there is none, the message is submitted)
HandleSend ==
  /\ CanSend(inputValue, renderedLoading)
  /\ Len(messages) + 2 <= MaxMessages
  /\ inputValue' = <<>>
  /\ botMessageId' = <<DateNow(messages) + 1>>
  /\ messages' = messages \o <<Message(DateNow(messages), "user", inputValue, <<>>),
                               Message(DateNow(messages) + 1, "model", <<>>, <<TRUE>>)>>
  /\ isLoading' = TRUE
  /\ renderedLoading' = TRUE
  /\ appPc' = "awaiting"
  /\ inFlight' = inFlight + 1
  /\ chatSession' = EnsureSession(chatSession)
  /\ UNCHANGED <<apiKey, generated>>
  /\ pc' = "awaitStream"
  /\ fullTextResponse' = <<>>
  /\ sources' = <<>>
  /\ result' = <<>>
  /\ error' = ""
  /\ trace' = <<[ev |-> "submit", stream |-> 0, parts |-> <<>>, message |-> inputValue,
                  session |-> EnsureSession(chatSession)]>>

\* handleSend returns at its first line: nothing is done
HandleSendIgnored ==
  /\ ~CanSend(inputValue, renderedLoading)
  /\ UNCHANGED vars

\* handleSend after its await: the try block's last update or the catch block, then
\* finally; the promise and the locals of the turn are gone
HandleSendResume ==
  /\ appPc = "awaiting"
  /\ pc \in {"resolved", "rejected"}
  /\ messages' = IF pc = "resolved"
                 THEN FinalUpdate(messages, botMessageId[1], result[1])
                 ELSE CatchUpdate(messages, botMessageId[1])
  /\ botMessageId' = <<>>
  /\ isLoading' = FALSE
  /\ appPc' = "idle"
  /\ pc' = "idle"
  /\ fullTextResponse' = <<>>
  /\ sources' = <<>>
  /\ result' = <<>>
  /\ error' = ""
  /\ trace' = <<>>
  /\ UNCHANGED <<inputValue, renderedLoading, inFlight, chatSession, apiKey, generated>>

\* React renders the updates made after the await: the handlers see the new isLoading
Render ==
  /\ renderedLoading # isLoading
  /\ renderedLoading' = isLoading
  /\ UNCHANGED <<inputValue, isLoading, appPc, botMessageId, messages>>
  /\ UNCHANGED <<inFlight, chatSession, apiKey, turnVars, generated>>

(* ---------------------------- sendMessage ------------------------------ *)
Settle(s) ==
  /\ pc' = s.pc
  /\ result' = s.result
  /\ error' = s.error
  /\ inFlight' = inFlight - 1

\* await this.chatSession.sendMessageStream({ message }) resolves; a request that
\* carries no key is never served, its call rejects
StreamOpens ==
  /\ pc = "awaitStream"
  /\ apiKey # ""
  /\ pc' = "streaming"
  /\ UNCHANGED <<fullTextResponse, sources, result, error, trace, inFlight, chatSession, apiKey>>
  /\ UNCHANGED <<appVars, messages, generated>>

\* one iteration of for await (const chunk of streamResult), up to the next await
NextChunk(F) ==
  /\ pc = "streaming"
  /\ NumChunks < MaxChunks
  /\ \E frag \in F : \E rnd \in [1..Len(frag.functionCalls) -> Randoms] :
       LET functionCalls == WithIds(frag.functionCalls, NumRequests)
           chunk == [frag EXCEPT !.functionCalls = functionCalls]
           t == HandleText(fullTextResponse, chunk.text, 0)
       IN \E x \in { IF Len(functionCalls) > 0
                     THEN ExecuteCalls(functionCalls, rnd, NoneExecuted)
                     ELSE NoneExecuted } :
          LET tr == Append(trace, [ev |-> "recv", stream |-> 0, frag |-> chunk])
                      \o ChunkEvents(t.events, x.events)
          IN
          /\ fullTextResponse' = t.full
          /\ messages' = ApplyCallbacks(messages, ChunkEvents(t.events, x.events),
                                        botMessageId[1])
          /\ sources' = HandleGrounding(sources, frag.groundingChunks)
          /\ IF x.threw
             THEN /\ Settle(Catch("TypeError", t.full))
                  /\ trace' = tr
             ELSE IF Len(x.functionResponses) > 0
             THEN /\ pc' = "awaitToolStream"
                  /\ trace' = Append(tr, [ev |-> "submit", stream |-> NumSubmits + 1,
                                          parts |-> x.functionResponses,
                                          session |-> chatSession])
                  /\ UNCHANGED <<result, error, inFlight>>
             ELSE /\ trace' = tr
                  /\ UNCHANGED <<pc, result, error, inFlight>>
  /\ UNCHANGED <<chatSession, apiKey>>
  /\ UNCHANGED <<appVars, generated>>

\* the stream of the user message is exhausted: the turn returns
StreamEnds ==
  /\ pc = "streaming"
  /\ Settle(Return(fullTextResponse, sources))
  /\ trace' = Append(trace, [ev |-> "return"])
  /\ UNCHANGED <<fullTextResponse, sources, chatSession, apiKey>>
  /\ UNCHANGED <<appVars, messages, generated>>

\* await this.chatSession.sendMessageStream({ message: responseParts }) resolves
ToolStreamOpens ==
  /\ pc = "awaitToolStream"
  /\ pc' = "toolStreaming"
  /\ UNCHANGED <<fullTextResponse, sources, result, error, trace, inFlight, chatSession, apiKey>>
  /\ UNCHANGED <<appVars, messages, generated>>

\* one iteration of for await (const toolChunk of toolStream)
NextToolChunk(F) ==
  /\ pc = "toolStreaming"
  /\ NumChunks < MaxChunks
  /\ \E frag \in F :
       LET toolChunk == [frag EXCEPT !.functionCalls = WithIds(@, NumRequests)]
           t == HandleToolText(fullTextResponse, toolChunk.text, NumSubmits)
       IN /\ fullTextResponse' = t.full
          /\ messages' = ApplyCallbacks(messages, t.events, botMessageId[1])
          /\ trace' = Append(trace, [ev |-> "recv", stream |-> NumSubmits, frag |-> toolChunk])
                        \o t.events
  /\ UNCHANGED <<pc, sources, result, error, inFlight, chatSession, apiKey>>
  /\ UNCHANGED <<appVars, generated>>

\* the resumed stream is exhausted: the loop over the stream of the user message goes on
ToolStreamEnds ==
  /\ pc = "toolStreaming"
  /\ pc' = "streaming"
  /\ trace' = Append(trace, [ev |-> "end", stream |-> NumSubmits])
  /\ UNCHANGED <<fullTextResponse, sources, result, error, inFlight, chatSession, apiKey>>
  /\ UNCHANGED <<appVars, messages, generated>>

\* a model call rejects: while a submission is awaited, or while a fragment is awaited
ModelCallFails ==
  /\ pc \in {"awaitStream", "streaming", "awaitToolStream", "toolStreaming"}
  /\ trace' = Append(trace, [ev |-> "fail", stream |-> CurrentStream])
  /\ Settle(Catch("ModelError", fullTextResponse))
  /\ UNCHANGED <<fullTextResponse, sources, chatSession, apiKey>>
  /\ UNCHANGED <<appVars, messages, generated>>

(* ---------------------------- specifications --------------------------- *)
\* One turn in full: the user types the first message while the App is idle, and the
\* model streams any of Fragments.
Next ==
  \/ \E v \in InputValues : appPc = "idle" /\ messages = <<Welcome>> /\ SetInputValue(v)
  \/ HandleSend
  \/ HandleSendIgnored
  \/ HandleSendResume
  \/ Render
  \/ StreamOpens
  \/ NextChunk(Fragments)
  \/ StreamEnds
  \/ ToolStreamOpens
  \/ NextToolChunk(ToolFragments)
  \/ ToolStreamEnds
  \/ ModelCallFails

Spec == Init /\ [][Next]_vars

\* Turn after turn: the user types and sends at any moment, also while a turn is in
\* flight, as long as the messages stay within MaxMessages; the model
\* streams a text fragment or a chart request, and text after the function responses.
AppFragments ==
  { [text |-> <<"a">>, functionCalls |-> <<>>, groundingChunks |-> <<>>],
    [text |-> NoText, functionCalls |-> <<Chart(FullArgs)>>, groundingChunks |-> <<>>] }
AppToolFragments == { [text |-> <<"b">>, functionCalls |-> <<>>, groundingChunks |-> <<>>] }

NextApp ==
  \/ \E v \in InputValues : SetInputValue(v)
  \/ HandleSend
  \/ HandleSendIgnored
  \/ HandleSendResume
  \/ Render
  \/ StreamOpens
  \/ NextChunk(AppFragments)
  \/ StreamEnds
  \/ ToolStreamOpens
  \/ NextToolChunk(AppToolFragments)
  \/ ToolStreamEnds
  \/ ModelCallFails

SpecApp == Init /\ [][NextApp]_vars

\* The same, where a settled promise's continuation runs and React renders: once the
\* promise of sendMessage is settled handleSend resumes, and a state update is rendered.
SpecAppFair ==
  /\ SpecApp
  /\ WF_vars(HandleSendResume)
  /\ WF_vars(Render)

\* One turn that the model serves: no model call fails, every submission is answered
\* by a stream, and every stream yields its next fragment or ends.
NextServed ==
  \/ \E v \in InputValues : appPc = "idle" /\ messages = <<Welcome>> /\ SetInputValue(v)
  \/ HandleSend
  \/ HandleSendIgnored
  \/ HandleSendResume
  \/ Render
  \/ StreamOpens
  \/ NextChunk(Fragments)
  \/ StreamEnds
  \/ ToolStreamOpens
  \/ NextToolChunk(ToolFragments)
  \/ ToolStreamEnds

SpecServed ==
  /\ Init /\ [][NextServed]_vars
  /\ WF_vars(StreamOpens)
  /\ WF_vars(NextChunk(Fragments) \/ StreamEnds)
  /\ WF_vars(ToolStreamOpens)
  /\ WF_vars(NextToolChunk(ToolFragments) \/ ToolStreamEnds)

\* generateMockChartData on its own: it is applied to any symbol and period, with any
\* random source, time after time.
GenerateChart ==
  /\ \E symbol \in Symbols : \E period \in Periods : \E rnd \in RandomSources :
       generated' = <<[symbol |-> symbol, period |-> period, rnd |-> rnd,
                       chart |-> GenerateMockChartData(symbol, period, rnd)]>>
  /\ UNCHANGED <<appVars, messages, turnVars, inFlight, chatSession, apiKey>>

NextChart == GenerateChart

SpecChart == Init /\ [][NextChart]_vars

(* ---------------------------- properties ------------------------------- *)
\* the texts passed to onChunk so far, in order
Delivered ==
  LET c == Events("onChunk") IN [i \in 1..Len(c) |-> c[i].text]

\* C1: when a turn resolves, the returned text is the in-order concatenation of every
\* string passed to onChunk in the turn, text of resumed streams included.
C1_TextIsConcatenationOfChunks ==
  pc = "resolved" => result[1].text = Concat(Delivered)

\* a turn resolved after text of the first stream and text of a resumed stream
C1_Witness ==
  /\ pc = "resolved"
  /\ \E i, j \in Indices("onChunk") :
        /\ i < j
        /\ trace[i].stream = 0
        /\ trace[j].stream > 0
        /\ trace[i].text # trace[j].text

\* C2: for every getStockChart request whose response was submitted, onChart was called
\* for it before the submission that resumes the stream, hence before every onChunk of
\* the resumed stream, and before sendMessage returns.
C2_ChartBeforeResumedTextAndReturn ==
  \A s \in Indices("submit") : \A p \in 1..Len(trace[s].parts) :
    trace[s].parts[p].name = "getStockChart" =>
      \E c \in Indices("onChart") :
        /\ trace[c].call = trace[s].parts[p].id
        /\ c < s
        /\ \A j \in Indices("onChunk") : trace[j].stream = trace[s].stream => c < j
        /\ \A r \in Indices("return") : c < r

\* a turn returned after a chart request was handled and the resumed stream gave text
C2_Witness ==
  /\ pc = "resolved"
  /\ \E s \in Indices("submit") :
        /\ \E p \in 1..Len(trace[s].parts) : trace[s].parts[p].name = "getStockChart"
        /\ \E j \in Indices("onChunk") : trace[j].stream = trace[s].stream /\ j > s

\* the submission made while the fragment received at r was handled, if any
AnswerOf(r) ==
  { s \in Indices("submit") :
      s > r /\ \A j \in (r + 1)..(s - 1) : trace[j].ev # "recv" }

\* the fragment that the function responses submitted at s answer
FragmentOf(s) ==
  LET r == CHOOSE r \in Indices("recv") :
             r < s /\ \A j \in Indices("recv") : j < s => j <= r
  IN trace[r].frag

\* parts holds one response per call of calls, in the order of the calls
AnswersAll(parts, calls) ==
  /\ Len(parts) = Len(calls)
  /\ \A i \in 1..Len(calls) : parts[i].id = calls[i].id

AllArgsDefined(calls) == \A i \in 1..Len(calls) : calls[i].args.defined

\* C3: for every fragment of the user message's stream that carries function calls
\* (each with an args mapping), one submission holds exactly one response per call.
C3_EveryRequestOfBatchAnswered ==
  \A r \in Indices("recv") :
    LET calls == trace[r].frag.functionCalls IN
      (trace[r].stream = 0 /\ Len(calls) > 0 /\ AllArgsDefined(calls)) =>
        \E s \in AnswerOf(r) : AnswersAll(trace[s].parts, calls)

\* C4: every response submitted carries the id and the name of a call of the fragment
\* it answers, and the responses of a submission are in the order of their calls.
C4_ResponsesCorrelatedAndOrdered ==
  \A s \in Indices("submit") :
    trace[s].stream > 0 =>
      LET calls == FragmentOf(s).functionCalls
          parts == trace[s].parts
      IN /\ \A i \in 1..Len(parts) : \E j \in 1..Len(calls) :
               calls[j].id = parts[i].id /\ calls[j].name = parts[i].name
         /\ \A i, k \in 1..Len(parts) : i < k =>
               \E j, l \in 1..Len(calls) :
                 j < l /\ calls[j].id = parts[i].id /\ calls[l].id = parts[k].id

\* the responses of a chart request and of a price request were submitted together
C4_Witness ==
  \E s \in Indices("submit") :
    /\ Len(trace[s].parts) = 2
    /\ trace[s].parts[1].name = "getStockChart"
    /\ trace[s].parts[2].name = "getStockPrice"

\* C5: a call of a tool that is not declared gets a response saying the tool is
\* unavailable, the response is submitted, and the turn does not reject for it.
C5_UnknownToolAnsweredUnavailable ==
  \A r \in Indices("recv") :
    LET calls == trace[r].frag.functionCalls IN
      (trace[r].stream = 0 /\ AllArgsDefined(calls)) =>
        \A i \in 1..Len(calls) : calls[i].name \notin DeclaredTools =>
          /\ error # "TypeError"
          /\ \E s \in AnswerOf(r) : \E p \in 1..Len(trace[s].parts) :
                /\ trace[s].parts[p].id = calls[i].id
                /\ trace[s].parts[p].response.result = "unavailable"

\* C6: sendMessage rejects only when a model call has failed, never for a function
\* call, whatever its name and its args.
C6_NoToolRequestRejects ==
  pc = "rejected" => Indices("fail") # {}

\* C7: function calls carried by a fragment of a resumed stream are executed and their
\* responses submitted.
C7_ResumedStreamCallsHandled ==
  \A r \in Indices("recv") :
    LET calls == trace[r].frag.functionCalls IN
      (trace[r].stream > 0 /\ Len(calls) > 0) =>
        \E s \in AnswerOf(r) : AnswersAll(trace[s].parts, calls)

\* C8: a turn makes at most a fixed number of tool round-trips (two, here).
C8_RoundTripsCapped ==
  NumSubmits <= 2

\* the callbacks made in tr, in order
CallbacksOf(tr) == SelectSeq(tr, LAMBDA e : e.ev \in {"onChunk", "onChart"})

\* C9: the step in which a model call fails rejects sendMessage with that error and
\* without a result, leaves the callbacks made so far as they are and adds none; from
\* then on nothing more happens in the turn (no callback, no return) until it is over.
C9_ModelFailureRejects ==
  [][ /\ Len(EventsOf(trace', "fail")) > Len(EventsOf(trace, "fail")) =>
           /\ pc' = "rejected"
           /\ error' = "ModelError"
           /\ result' = <<>>
           /\ CallbacksOf(trace') = CallbacksOf(trace)
           /\ EventsOf(trace', "return") = <<>>
      /\ pc = "rejected" =>
           \/ pc' = "rejected" /\ trace' = trace /\ result' = <<>> /\ error' = error
           \/ pc' = "idle" /\ trace' = <<>>
    ]_vars

\* the submission of function responses failed after a text and a chart were delivered
C9_Witness ==
  /\ pc = "rejected"
  /\ error = "ModelError"
  /\ Indices("onChunk") # {}
  /\ Indices("onChart") # {}
  /\ Len(trace) > 1
  /\ trace[Len(trace)].ev = "fail"
  /\ trace[Len(trace) - 1].ev = "submit"

\* C10: at most one sendMessage call is unsettled at any time.
C10_AtMostOneTurnInFlight ==
  inFlight <= 1

\* a turn is in flight, the handlers still see isLoading, and a message has been typed:
\* a send event now finds the guard closed
C10_Witness ==
  /\ inFlight = 1
  /\ pc = "toolStreaming"
  /\ renderedLoading
  /\ Trim(inputValue) # <<>>

\* the onChart calls made for the request with this id
ChartCallbacksFor(id) == { c \in Indices("onChart") : trace[c].call = id }

\* C11: onChart is called exactly once for every getStockChart request that is handled
\* (a request of the user message's stream that the call loop reaches) and never for
\* another request: a getStockPrice request triggers no onChart.
C11_OneChartCallbackPerChartRequest ==
  /\ \A r \in Indices("recv") :
       LET calls == trace[r].frag.functionCalls IN
         \A i \in 1..Len(calls) :
           LET handled == trace[r].stream = 0 /\ \A k \in 1..i : calls[k].args.defined
           IN Cardinality(ChartCallbacksFor(calls[i].id)) =
                IF handled /\ calls[i].name = "getStockChart" THEN 1 ELSE 0
  /\ \A c \in Indices("onChart") : \E r \in Indices("recv") :
       \E i \in 1..Len(trace[r].frag.functionCalls) :
         trace[r].frag.functionCalls[i].id = trace[c].call

\* a batch of a chart request and a price request was answered after one onChart call
C11_Witness ==
  /\ Len(Events("onChart")) = 1
  /\ \E s \in Indices("submit") :
        /\ Len(trace[s].parts) = 2
        /\ trace[s].parts[1].name = "getStockChart"
        /\ trace[s].parts[2].name = "getStockPrice"

\* C12: with the API key missing, no message is submitted to the model and no session
\* is created: the failure precedes every model exchange.
C12_MissingKeyFailsBeforeExchange ==
  apiKey = "" => (Indices("submit") = {} /\ chatSession = 0)

\* the events between the receipt of fragment r and the receipt of the next fragment
EventsAfter(r) ==
  LET later == { j \in (r + 1)..Len(trace) : trace[j].ev = "recv" }
  IN IF later = {} THEN (r + 1)..Len(trace)
     ELSE (r + 1)..((CHOOSE j \in later : \A k \in later : j <= k) - 1)

\* C13: when a fragment carries both non-empty text and tool requests, onChunk is called
\* with that text before any onChart call and before the submission of the tool results
\* of that fragment.
C13_TextBeforeToolsOfSameFragment ==
  \A r \in Indices("recv") :
    LET frag == trace[r].frag IN
      (trace[r].stream = 0 /\ Truthy(frag.text) /\ Len(frag.functionCalls) > 0) =>
        \E c \in EventsAfter(r) :
          /\ trace[c].ev = "onChunk" /\ trace[c].text = frag.text
          /\ \A k \in EventsAfter(r) : trace[k].ev \in {"onChart", "submit"} => c < k

C13_Witness ==
  \E r \in Indices("recv") :
    /\ Truthy(trace[r].frag.text) /\ Len(trace[r].frag.functionCalls) > 0
    /\ \E c, k, b \in EventsAfter(r) :
         /\ trace[c].ev = "onChunk" /\ trace[k].ev = "onChart" /\ trace[b].ev = "submit"
         /\ c < k /\ k < b

\* the citations a fragment carries
Citations(frag) == SelectSeq(frag.groundingChunks, IsWebSource)

\* C14: the sources a turn returns are the citations of every fragment consumed in the
\* turn, of the stream of the user message and of every resumed stream, in the order
\* received.
C14_SourcesAreAllCitations ==
  pc = "resolved" =>
    LET r == Events("recv")
    IN result[1].sources = Concat([i \in 1..Len(r) |-> Citations(r[i].frag)])

\* the property of a request's arguments, undefined when the arguments or the property
\* are missing
Requested(call, prop) == IF call.args.defined THEN call.args[prop] ELSE Undefined

\* the response submitted for the request with this id, if any
ResponsesFor(id) ==
  UNION { { trace[s].parts[k].response :
              k \in { j \in 1..Len(trace[s].parts) : trace[s].parts[j].id = id } } :
          s \in Indices("submit") }

\* C15: a getStockChart or getStockPrice request of the user message's stream whose
\* symbol is missing is executed with the symbol UNKNOWN, a getStockChart request whose
\* period is missing with the period 1M; a result is produced for it, the turn does not
\* fail, and the chart handed to onChart carries the requested symbol in upper case.
C15_MissingArgumentsDefaulted ==
  \A r \in Indices("recv") : \A i \in 1..Len(trace[r].frag.functionCalls) :
    LET call == trace[r].frag.functionCalls[i]
        symbol == IF Requested(call, "symbol") = Undefined THEN "UNKNOWN"
                  ELSE Requested(call, "symbol")
        period == IF Requested(call, "period") = Undefined THEN "1M"
                  ELSE Requested(call, "period")
    IN (trace[r].stream = 0 /\ call.name \in DeclaredTools) =>
         /\ \E p \in ResponsesFor(call.id) : p.symbol = symbol
         /\ call.name = "getStockChart" =>
               \E c \in ChartCallbacksFor(call.id) :
                 /\ trace[c].chart.symbol = ToUpperCase(symbol)
                 /\ trace[c].chart.period = period

\* C16: the number of points of a generated chart is fixed by the period: 8 for 1W, 25
\* for 1D, 31 for 1M, 13 for 1Y, and more than none for any period; it is the same for
\* every symbol, and the same as in the call before when that had the same period.
C16_PointCountByPeriod ==
  [][generated' # <<>> =>
       LET g == generated'[1]
           n == Len(g.chart.data)
       IN /\ n > 0
          /\ g.period = "1W" => n = 8
          /\ g.period = "1D" => n = 25
          /\ g.period = "1M" => n = 31
          /\ g.period = "1Y" => n = 13
          /\ (generated # <<>> /\ generated[1].period = g.period) =>
                Len(generated[1].chart.data) = n]_vars

C16_Witness ==
  /\ generated # <<>>
  /\ generated[1].period = "1W" /\ generated[1].symbol = "Eth"
  /\ Len(generated[1].chart.data) = 8

\* C17: the trend of a generated chart is up exactly when the price of the last point
\* is greater than the price of the first point, down exactly when it is less, neutral
\* exactly when the two are equal.
C17_TrendComparesFirstAndLast ==
  generated # <<>> =>
    LET chart == generated[1].chart
        first == chart.data[1].price
        last == chart.data[Len(chart.data)].price
    IN /\ chart.trend = "up" <=> last > first
       /\ chart.trend = "down" <=> last < first
       /\ chart.trend = "neutral" <=> last = first

C17_Witness ==
  /\ generated # <<>>
  /\ generated[1].chart.trend = "neutral"
  /\ \E k \in 1..Len(generated[1].rnd) : generated[1].rnd[k] # 500

\* the onChunk calls made after fragment r was received and before the next fragment
ChunkCallbacksAfter(r) == { c \in EventsAfter(r) : trace[c].ev = "onChunk" }

\* C18: a fragment of any stream whose text is present and not empty is followed, before
\* the next fragment is received, by exactly one onChunk call, with that text; a fragment
\* whose text is absent or empty by none; so every onChunk call belongs to the fragment
\* received last and none carries the empty string.
C18_OneChunkCallbackPerText ==
  /\ \A r \in Indices("recv") :
       LET text == trace[r].frag.text IN
         IF text = NoText \/ text = <<>>
         THEN ChunkCallbacksAfter(r) = {}
         ELSE /\ Cardinality(ChunkCallbacksAfter(r)) = 1
              /\ \A c \in ChunkCallbacksAfter(r) :
                   trace[c].text = text /\ trace[c].stream = trace[r].stream
  /\ \A c \in Indices("onChunk") :
       /\ trace[c].text # <<>> /\ trace[c].text # NoText
       /\ trace[c - 1].ev = "recv" /\ c \in ChunkCallbacksAfter(c - 1)

C18_Witness ==
  \E r1, r2, r3 \in Indices("recv") :
    /\ trace[r1].frag.text = <<>> /\ ChunkCallbacksAfter(r1) = {}
    /\ trace[r2].frag.text = NoText /\ ChunkCallbacksAfter(r2) = {}
    /\ trace[r3].stream > 0 /\ trace[r3].frag.text = <<"b">>
    /\ Cardinality(ChunkCallbacksAfter(r3)) = 1

\* C19: between a fragment that carries function calls and the next fragment of the same
\* stream, one response per call is submitted and the stream resumed by that submission
\* is consumed to its end.
C19_NextFragmentWaitsForTools ==
  \A r, n \in Indices("recv") :
    LET calls == trace[r].frag.functionCalls IN
      (r < n /\ trace[n].stream = trace[r].stream /\ Len(calls) > 0) =>
        \E s \in Indices("submit") : \E e \in Indices("end") :
          /\ r < s /\ s < e /\ e < n
          /\ AnswersAll(trace[s].parts, calls)
          /\ trace[e].stream = trace[s].stream

\* C20: once function responses have been submitted, no fragment of an earlier stream is
\* received any more, and no text of an earlier stream is delivered after a text of the
\* resumed stream.
C20_NoReturnToEarlierStream ==
  /\ \A s \in Indices("submit") : \A r \in Indices("recv") :
       s < r => trace[r].stream >= trace[s].stream
  /\ \A c, d \in Indices("onChunk") :
       c < d => trace[c].stream <= trace[d].stream

\* every submission of the turn went to the session the service holds
SubmitsUseSession ==
  \A s \in Indices("submit") : trace[s].session # 0 /\ trace[s].session = chatSession

\* C21: over the calls of sendMessage the session is created once, by the first call:
\* once there is a session it is never replaced; every submission, of a user message or
\* of function responses, goes to that session, and none is made while there is none.
C21_SessionCreatedOnce ==
  [][/\ chatSession # 0 => chatSession' = chatSession
     /\ (chatSession = 0 /\ chatSession' # 0) => Len(messages') = Len(messages) + 2
     /\ SubmitsUseSession']_vars

C21_Witness ==
  /\ Len(messages) = 5
  /\ pc = "toolStreaming"
  /\ chatSession = 1
  /\ SubmitsUseSession

\* C22: when no model call fails and every stream is finite, a turn whose message was
\* submitted (with a key, so that the model serves it) eventually resolves with a result.
C22_TurnEventuallyResolves ==
  (pc = "awaitStream" /\ apiKey # "") ~> (pc = "resolved" /\ result # <<>>)

\* the onChart calls made for the fragment whose tool results submission s carries, and
\* the results for getStockChart requests among the parts of s, both in order
ChartCallbacksBefore(s) ==
  LET r == CHOOSE i \in 1..(s - 1) :
             trace[i].ev = "recv" /\ \A j \in (i + 1)..(s - 1) : trace[j].ev # "recv"
  IN SelectSeq(SubSeq(trace, r + 1, s - 1), LAMBDA e : e.ev = "onChart")
ChartResults(s) == SelectSeq(trace[s].parts, LAMBDA part : part.name = "getStockChart")

\* C23: for every getStockChart request whose result is submitted there is one onChart
\* call, made for that request, and the price quoted in the result is the price of the
\* last point of the very chart that was passed to onChart.
C23_QuotedPriceIsChartsLastPrice ==
  \A s \in Indices("submit") :
    trace[s].stream > 0 =>
      LET charts == ChartCallbacksBefore(s)
          results == ChartResults(s)
      IN /\ Len(charts) = Len(results)
         /\ \A k \in 1..Len(results) :
              LET data == charts[k].chart.data IN
              /\ charts[k].call = results[k].id
              /\ results[k].response.price = data[Len(data)].price

C23_Witness ==
  \E s \in Indices("submit") :
    /\ trace[s].stream > 0
    /\ \E k \in 1..Len(ChartResults(s)) :
         LET data == ChartCallbacksBefore(s)[k].chart.data IN
         /\ ChartResults(s)[k].response.price = data[Len(data)].price
         /\ data[1].price # data[Len(data)].price
         /\ \E i \in 1..Len(data) : data[i].price > data[Len(data)].price

\* the message the open call of handleSend updates, after the step
BotMessageAfter == Find(messages', botMessageId[1])

\* C24: after an accepted send, once the turn has resolved or rejected, isLoading is
\* eventually false again and rendered so, so that a later send is accepted; when the
\* turn rejected, handleSend leaves the bot message with the fallback text and not
\* loading.
C24_LoadingClearedAfterTurn ==
  /\ (appPc = "awaiting" /\ pc \in {"resolved", "rejected"})
        ~> (appPc = "idle" /\ ~isLoading /\ CanSend(<<"h">>, renderedLoading))
  /\ [][(appPc = "awaiting" /\ appPc' = "idle")
          => /\ ~isLoading'
             /\ BotMessageAfter.isLoading = <<FALSE>>
             /\ pc = "rejected" => BotMessageAfter.text = ErrorText]_vars

C24_Witness ==
  /\ Len(messages) = 5
  /\ messages[3].text = ErrorText
  /\ messages[3].isLoading = <<FALSE>>
  /\ messages[5].isLoading = <<TRUE>>
  /\ appPc = "awaiting"

\* the texts passed to onChunk and the charts passed to onChart in the turn, in order
ChunksDelivered ==
  LET c == Events("onChunk") IN [i \in 1..Len(c) |-> c[i].text]
ChartsDelivered ==
  LET c == Events("onChart") IN [i \in 1..Len(c) |-> c[i].chart]

\* C25: when handleSend resumes after a turn that resolved, the bot message's text is
\* the text sendMessage returned, which is the chunks passed to onChunk concatenated in
\* order, each once; its chart is the last one passed to onChart, none if there was
\* none; and its sources are the returned sources.
C25_BotMessageShowsResult ==
  [][(appPc = "awaiting" /\ pc = "resolved" /\ appPc' = "idle")
      => /\ BotMessageAfter.text = result[1].text
         /\ BotMessageAfter.text = Concat(ChunksDelivered)
         /\ BotMessageAfter.chartData =
              IF ChartsDelivered = <<>> THEN <<>>
              ELSE <<ChartsDelivered[Len(ChartsDelivered)]>>
         /\ BotMessageAfter.sources = <<result[1].sources>>
         /\ BotMessageAfter.isLoading = <<FALSE>>
         /\ \A i \in 1..Len(messages) :
              messages[i].id # botMessageId[1] => messages'[i] = messages[i]]_vars

C25_Witness ==
  /\ appPc = "idle"
  /\ Len(messages) = 3
  /\ messages[3].text = <<"a", "b">>
  /\ messages[3].chartData # <<>>
  /\ messages[3].sources = <<<<Web("t1", "u1")>>>>
  /\ messages[3].isLoading = <<FALSE>>

\* a step in which a send takes effect: the list of messages grows, a call of
\* sendMessage is made or isLoading is raised
SendTakesEffect ==
  \/ Len(messages') # Len(messages)
  \/ inFlight' > inFlight
  \/ isLoading' /\ ~isLoading

\* C26: a send attempted with blank input or while isLoading has no effect: no step
\* that grows the messages, calls sendMessage or raises isLoading starts from such a
\* state; an accepted send appends exactly two messages to the list, the user message
\* with the input's text and then the bot placeholder, empty and loading, and clears
\* the input.
C26_SendGuardedAndAppendsTwo ==
  [][SendTakesEffect
      => /\ Trim(inputValue) # <<>>
         /\ ~isLoading
         /\ Len(messages') = Len(messages) + 2
         /\ SubSeq(messages', 1, Len(messages)) = messages
         /\ LET user == messages'[Len(messages) + 1]
                bot == messages'[Len(messages) + 2]
            IN /\ user.role = "user" /\ user.text = inputValue
               /\ user.chartData = <<>> /\ user.sources = <<>>
               /\ bot.role = "model" /\ bot.text = <<>> /\ bot.isLoading = <<TRUE>>
               /\ bot.chartData = <<>> /\ bot.sources = <<>>
               /\ bot.id # user.id
               /\ botMessageId' = <<bot.id>>
               /\ \A i \in 1..Len(messages) : messages[i].id \notin {user.id, bot.id}
         /\ inputValue' = <<>>
         /\ isLoading'
         /\ inFlight' = inFlight + 1
         /\ trace'[1].message = inputValue]_vars

C26_Witness ==
  /\ Len(messages) = 5
  /\ messages[4].role = "user" /\ messages[4].text = <<"h">>
  /\ messages[5].role = "model" /\ messages[5].text = <<>>
  /\ messages[5].isLoading = <<TRUE>>
  /\ isLoading
  /\ Trim(inputValue) # <<>>
  /\ ~CanSend(inputValue, renderedLoading)

====
